---- MODULE Spec2Model ----
(***************************************************************************)
(* Stream bridge of slim_mcp (mcp_client.create_mcp_streams and            *)
(* mcp_server.create_mcp_streams): one SLIM session wrapped into an        *)
(* inbound and an outbound anyio memory object stream, driven by two       *)
(* asyncio tasks (slim_reader, slim_writer) inside one asyncio.TaskGroup.  *)
(*                                                                         *)
(* The bridge, the session acceptor (mcp_server.run_mcp_server) and the    *)
(* session opener (mcp_client.create_slim_session) are three components    *)
(* with a specification each (Spec, AcceptorSpec, OpenerSpec); the         *)
(* variables of the other components keep their initial values.            *)
(*                                                                         *)
(* Every await of the source is a suspension point: one action is the run  *)
(* of a task from the await it resumes at to the next await it parks at.   *)
(* The final step of a task includes its `finally: await ...aclose()` and  *)
(* the TaskGroup's done-callback for it (TaskGroup._on_task_done).          *)
(* Texts (payload bytes, exception messages) are sequences of tokens, so   *)
(* that `"session closed" in str(exc)` is a contiguous-subsequence test.   *)
(***************************************************************************)
EXTENDS Naturals, Sequences, FiniteSets, TLC

VARIABLES
    role,          \* "client" (mcp_client.py) or "server" (mcp_server.py)
    delivered,     \* outcomes returned/raised by session.get_message_async, in order
    inbound,       \* items the consumer has received from read_stream, in order
    readerPc,      \* slim_reader: the await it is parked at, or "done"
    readerItem,    \* the item slim_reader is handing to read_stream_writer.send
    readerExit,    \* how slim_reader ended: "none","return","ttg","error","cancelled"
    readerCancel,  \* task.cancel() requested on slim_reader and not yet delivered
    inSendClosed,  \* read_stream_writer closed (slim_reader's finally)
    inRecvClosed,  \* read_stream closed by its consumer
    accepted,      \* messages write_stream.send has accepted from the producer
    outBuf,        \* buffer of the outbound memory object stream
    taken,         \* messages slim_writer's `async for` has yielded
    sent,          \* payloads passed to session.publish_async, in order
    acked,         \* number of completions whose wait_async has returned
    writerPc,      \* slim_writer: the await it is parked at, or "done"
    writerItem,    \* item handed to the parked receiver (receiver.item)
    writerExit,    \* how slim_writer ended
    writerCancel,  \* task.cancel() requested on slim_writer and not yet delivered
    outSendClosed, \* write_stream closed by its producer
    outRecvClosed, \* write_stream_reader closed (slim_writer's finally)
    forcePc,       \* force_termination task: "none","ready","done","cancelled"
    tgErrors,      \* TaskGroup._errors, as the set of kinds of error collected
    aborting,      \* TaskGroup._aborting
    parentCancel,  \* TaskGroup._parent_cancel_requested, not yet delivered to the body
    parentPc,      \* caller's task: "body","exit_wait","unwind_wait","done"
    result,        \* outcome of the bridge scope: "none","ok","raised"
    accPc,         \* run_mcp_server: "listening" (parked in listen) or "cancelled"
    accCancel,     \* task.cancel() requested on the task running run_mcp_server
    session,       \* run_mcp_server's local `session` (0: not bound yet)
    arrived,       \* sessions that have arrived at the transport (ids 1..arrived)
    listened,      \* sessions listen_for_session_async has returned
    tasks,         \* the handle_session tasks, in the order of their creation
    acceptErrors,  \* what "Error accepting session" has logged, in order
    released,      \* sessions the server has passed to delete_session_async
    opPc,          \* create_slim_session, per caller: the await it is parked at
    opEstablished, \* the establishment completion of the caller's session fired
    opDeletes,     \* calls of delete_session_async made for the caller's session
    opAwaited,     \* the deletion completion's wait_async has returned
    opBody,        \* the caller's body: "none","running","returned","raised"
    opResult,      \* how the scope ended for its caller
    appPc,         \* create_local_app: "idle","connect","create","subscribe","returned","raised"
    slim_client_config, \* create_local_app's argument: TRUE when a config is given
    connectOutcome,     \* what service.connect_async did in this call
    connection_id,      \* create_local_app's local `connection_id`
    local_app,          \* create_app_with_secret has made the app
    subscribed,         \* connection ids passed to subscribe_async, in order
    appResult           \* the pair create_local_app returned

vars == <<role, delivered, inbound, readerPc, readerItem, readerExit, readerCancel,
          inSendClosed, inRecvClosed, accepted, outBuf, taken, sent, acked,
          writerPc, writerItem, writerExit, writerCancel, outSendClosed,
          outRecvClosed, forcePc, tgErrors, aborting, parentCancel, parentPc,
          result, accPc, accCancel, session, arrived, listened, tasks,
          acceptErrors, released, opPc, opEstablished, opDeletes, opAwaited, opBody,
          opResult, appPc, slim_client_config, connectOutcome, connection_id,
          local_app, subscribed, appResult>>

acceptorVars == <<accPc, accCancel, session, arrived, listened, tasks, acceptErrors,
                  released>>
openerVars == <<opPc, opEstablished, opDeletes, opAwaited, opBody, opResult>>
appVars == <<appPc, slim_client_config, connectOutcome, connection_id, local_app,
             subscribed, appResult>>
bridgeVars == <<role, delivered, inbound, readerPc, readerItem, readerExit,
                readerCancel, inSendClosed, inRecvClosed, accepted, outBuf, taken,
                sent, acked, writerPc, writerItem, writerExit, writerCancel,
                outSendClosed, outRecvClosed, forcePc, tgErrors, aborting,
                parentCancel, parentPc, result>>

readerVars == <<delivered, readerPc, readerItem, readerExit, inSendClosed>>
writerVars == <<outBuf, taken, sent, acked, writerPc, writerItem, writerExit,
                outRecvClosed>>
groupVars  == <<forcePc, tgErrors, aborting, parentCancel, readerCancel, writerCancel>>

----------------------------------------------------------------------------
(* Bounds of the model.                                                    *)

\* receive outcomes the session produces in one run
MaxRecv == 2
\* messages the producer offers to the outbound stream in one run
MaxOut == 2
\* sessions that arrive at the server in one run
MaxSessions == 3
\* listens that fail or time out in one run
MaxAcceptFailures == 2
\* callers that open a session with create_slim_session in one run
NumOpeners == 2
\* largest connection id connect_async returns (ids start at 0)
MaxConnId == 2
\* words in the text of an error raised by connect_async
MaxErrLen == 4

----------------------------------------------------------------------------
(* Texts and conversions.                                                  *)

Roles == {"client", "server"}

\* the text the reader looks for in str(exc)
ClosedMarker(r) ==
    IF r = "client" THEN <<"session", "channel", "closed">>
                    ELSE <<"session", "closed">>

\* `needle in hay` of Python, on token sequences
Contains(hay, needle) ==
    \E i \in 0..Len(hay) :
        /\ i + Len(needle) <= Len(hay)
        /\ \A j \in 1..Len(needle) : hay[i + j] = needle[j]

\* a serializer that writes the same document for every message
Serialize_Constant(m) == <<"{", "ping", "}">>

\* message.model_dump_json(by_alias=True, exclude_none=True).encode()
Serialize(m) == <<"{", m, "}">>

WellFormed(p) == Len(p) = 3 /\ p[1] = "{" /\ p[3] = "}"

\* a parser that yields the same message for every well-formed payload
Deserialize_Alters(p) ==
    IF Len(p) = 3 /\ p[1] = "{" /\ p[3] = "}"
    THEN [ok |-> TRUE, msg |-> "a"]
    ELSE [ok |-> FALSE, text |-> <<"invalid", "json", ":">> \o p]

\* types.JSONRPCMessage.model_validate_json(payload.decode()): the message, or a
\* validation error whose text quotes the input
Deserialize(p) ==
    IF WellFormed(p)
    THEN [ok |-> TRUE, msg |-> p[2]]
    ELSE [ok |-> FALSE, text |-> <<"invalid", "json", ":">> \o p]

Msg(m)      == [kind |-> "msg", msg |-> m]
ErrVal(t)   == [kind |-> "exc", text |-> t]

\* messages the peer sends (inbound) and the producer offers (outbound, in this order)
InMsgs == {"a", "b"}
OutSeq == <<"ping", "list", "call", "bye">>
OutMsg(n) == OutSeq[n]

\* payloads that are not a JSON-RPC document; two of them carry a closure wording
Malformed == {<<"garbage">>, <<"session", "closed">>,
              <<"session", "channel", "closed">>}
Payloads == {Serialize(m) : m \in InMsgs} \cup Malformed

\* texts of the exceptions get_message_async raises
RecvExcTexts == {<<"session", "channel", "closed">>, <<"session", "closed">>,
                 <<"receive", "timeout">>}

RecvOutcomes ==
    {[kind |-> "payload", payload |-> p] : p \in Payloads}
    \cup {[kind |-> "exc", text |-> t] : t \in RecvExcTexts}

Last(s) == s[Len(s)]

----------------------------------------------------------------------------
(* Initial state: the TaskGroup is entered, both pump tasks have run up to *)
(* their first await (tasks start in creation order, before anything that  *)
(* is scheduled later), and the caller's body holds the two streams.       *)

\* a stream created with room for one item
StreamBufferSize_One == 0 + 1

\* anyio.create_memory_object_stream(0)
StreamBufferSize == 0

\* create_mcp_streams has entered its TaskGroup
BridgeStart ==
    /\ role \in Roles
    /\ delivered = <<>>
    /\ inbound = <<>>
    /\ readerPc = "recv"
    /\ readerItem = Msg("none")
    /\ readerExit = "none"
    /\ readerCancel = FALSE
    /\ inSendClosed = FALSE
    /\ inRecvClosed = FALSE
    /\ accepted = <<>>
    /\ outBuf = <<>>
    /\ taken = <<>>
    /\ sent = <<>>
    /\ acked = 0
    /\ writerPc = "recv"
    /\ writerItem = "none"
    /\ writerExit = "none"
    /\ writerCancel = FALSE
    /\ outSendClosed = FALSE
    /\ outRecvClosed = FALSE
    /\ forcePc = "none"
    /\ tgErrors = {}
    /\ aborting = FALSE
    /\ parentCancel = FALSE
    /\ parentPc = "body"
    /\ result = "none"

\* run_mcp_server is about to listen for the first time
AcceptorStart ==
    /\ accPc = "listening"
    /\ accCancel = FALSE
    /\ session = 0
    /\ arrived = 0
    /\ listened = 0
    /\ tasks = <<>>
    /\ acceptErrors = <<>>
    /\ released = {}

\* every caller of create_slim_session has called create_session_async
OpenerStart ==
    /\ opPc = [c \in 1..NumOpeners |-> "create"]
    /\ opEstablished = [c \in 1..NumOpeners |-> FALSE]
    /\ opDeletes = [c \in 1..NumOpeners |-> 0]
    /\ opAwaited = [c \in 1..NumOpeners |-> FALSE]
    /\ opBody = [c \in 1..NumOpeners |-> "none"]
    /\ opResult = [c \in 1..NumOpeners |-> "none"]

\* `None`, for a connection id
NoConnection == 0 - 1

\* create_local_app has not been called
AppIdle ==
    /\ appPc = "idle"
    /\ slim_client_config = FALSE
    /\ connectOutcome = [kind |-> "none"]
    /\ connection_id = NoConnection
    /\ local_app = FALSE
    /\ subscribed = <<>>
    /\ appResult = <<>>

Init == BridgeStart /\ AcceptorStart /\ OpenerStart /\ AppIdle

----------------------------------------------------------------------------
(* asyncio.TaskGroup: what the done-callback of a child does.              *)

\* a group that collects the error and cancels its parent but leaves the other
\* children running
PumpRaised_SiblingsKept(k, who) ==
    /\ tgErrors' = tgErrors \cup {k}
    /\ aborting' = TRUE
    /\ parentCancel' = (parentCancel \/ (~aborting /\ parentPc = "body"))
    /\ UNCHANGED <<readerCancel, writerCancel, forcePc>>

\* A pump task ended by raising an error of kind k (TaskGroup._on_task_done):
\* the error is collected and, unless the group is already aborting, every other
\* child is cancelled and so is the parent task. A parent that is already waiting
\* in __aexit__ swallows that cancellation; a parent still in the body gets it at
\* the await it is parked at.
PumpRaised(k, who) ==
    /\ tgErrors' = tgErrors \cup {k}
    /\ aborting' = TRUE
    /\ IF aborting
       THEN UNCHANGED <<readerCancel, writerCancel, forcePc, parentCancel>>
       ELSE /\ readerCancel' = (who # "reader" /\ readerPc # "done")
            /\ writerCancel' = (who # "writer" /\ writerPc # "done")
            /\ forcePc' = IF forcePc = "ready" THEN "cancelled" ELSE forcePc
            /\ parentCancel' = (parentPc = "body")

\* A pump task ended by returning, or by the CancelledError it was sent: nothing
\* is collected and nobody is cancelled.
PumpEndedQuietly == UNCHANGED <<tgErrors, aborting, forcePc, parentCancel>>

----------------------------------------------------------------------------
(* slim_reader: session -> read_stream.                                    *)

\* a slim_reader that ends without closing read_stream_writer
ReaderEnds_LeavesOpen(how) ==
    /\ readerPc' = "done"
    /\ readerExit' = how
    /\ readerItem' = Msg("none")
    /\ UNCHANGED inSendClosed
    /\ CASE how = "ttg"   -> PumpRaised("TTG", "reader")
         [] how = "error" -> PumpRaised("broken", "reader")
         [] OTHER         -> /\ PumpEndedQuietly
                             /\ readerCancel' = FALSE
                             /\ UNCHANGED writerCancel

\* slim_reader leaves its loop: `finally: await read_stream_writer.aclose()`, then
\* the task is done and the TaskGroup sees how it ended.
ReaderEnds(how) ==
    /\ readerPc' = "done"
    /\ readerExit' = how
    /\ readerItem' = Msg("none")
    /\ inSendClosed' = TRUE
    /\ CASE how = "ttg"   -> PumpRaised("TTG", "reader")
         [] how = "error" -> PumpRaised("broken", "reader")
         [] OTHER         -> /\ PumpEndedQuietly
                             /\ readerCancel' = FALSE
                             /\ UNCHANGED writerCancel

\* slim_reader parks in read_stream_writer.send(item): the stream has no buffer
\* and the item waits for the consumer.
ReaderParks(pc, item) ==
    /\ readerPc' = pc
    /\ readerItem' = item
    /\ UNCHANGED <<readerExit, inSendClosed, groupVars>>

\* an exception handler that forwards the error value and goes on receiving
ReaderExcept_Retries(text) ==
    IF Contains(text, ClosedMarker(role))
    THEN ReaderEnds("ttg")
    ELSE IF inRecvClosed
         THEN ReaderEnds("error")
         ELSE ReaderParks("send_msg", ErrVal(text))

\* an exception handler without the test for the closure wording
ReaderExcept_NoClosureTest(text) ==
    IF inRecvClosed
    THEN ReaderEnds("error")
    ELSE ReaderParks("send_exc", ErrVal(text))

\* `except Exception as exc:` of slim_reader, for an exception whose str() is text.
\* The send of the error value fails at once when the consumer closed read_stream
\* (BrokenResourceError, raised out of the handler).
ReaderExcept(text) ==
    IF Contains(text, ClosedMarker(role))
    THEN ReaderEnds("ttg")
    ELSE IF inRecvClosed
         THEN ReaderEnds("error")
         ELSE ReaderParks("send_exc", ErrVal(text))

\* `await read_stream_writer.send(message)`: BrokenResourceError (whose str() is
\* empty) when the consumer closed read_stream; it is raised inside the try.
\* a send into a stream with room: it returns without a consumer taking the item
ReaderSendMsg_Buffered(m) == ReaderParks("msg_sent", Msg(m))

ReaderSendMsg(m) ==
    IF inRecvClosed
    THEN ReaderExcept(<<>>)
    ELSE ReaderParks("send_msg", Msg(m))

\* get_message_async returns a payload or raises; the payload is decoded and
\* validated; the message is handed to the inbound stream.
slim_reader_receive ==
    /\ readerPc = "recv"
    /\ ~readerCancel
    /\ Len(delivered) < MaxRecv
    /\ \E o \in RecvOutcomes :
        /\ delivered' = Append(delivered, o)
        /\ IF o.kind = "exc"
           THEN ReaderExcept(o.text)
           ELSE LET d == Deserialize(o.payload) IN
                IF d.ok THEN ReaderSendMsg(d.msg) ELSE ReaderExcept(d.text)
    /\ UNCHANGED <<acceptorVars, openerVars, appVars, role, inbound, inRecvClosed, accepted, writerVars, outSendClosed,
                   parentPc, result>>

\* one task pumping both directions in turn: no next receive while a send to the
\* session is in progress
slim_reader_continue_SingleTask ==
    /\ readerPc = "msg_sent"
    /\ ~readerCancel
    /\ writerPc \notin {"publish", "wait"}
    /\ readerPc' = "recv"
    /\ readerItem' = Msg("none")
    /\ UNCHANGED <<acceptorVars, openerVars, appVars, role, delivered, inbound, readerExit, inSendClosed, inRecvClosed,
                   accepted, writerVars, outSendClosed, groupVars, parentPc, result>>

\* the send of a message returned: back to `while True`, the next receive
slim_reader_continue ==
    /\ readerPc = "msg_sent"
    /\ ~readerCancel
    /\ readerPc' = "recv"
    /\ readerItem' = Msg("none")
    /\ UNCHANGED <<acceptorVars, openerVars, appVars, role, delivered, inbound, readerExit, inSendClosed, inRecvClosed,
                   accepted, writerVars, outSendClosed, groupVars, parentPc, result>>

\* the send of an error value returned: `break`
slim_reader_break ==
    /\ readerPc = "exc_sent"
    /\ ~readerCancel
    /\ ReaderEnds("return")
    /\ UNCHANGED <<acceptorVars, openerVars, appVars, role, delivered, inbound, inRecvClosed, accepted, writerVars,
                   outSendClosed, parentPc, result>>

\* the consumer closed read_stream while slim_reader was parked in send
slim_reader_broken ==
    /\ readerPc \in {"send_msg", "send_exc"}
    /\ inRecvClosed
    /\ ~readerCancel
    /\ IF readerPc = "send_msg" THEN ReaderExcept(<<>>) ELSE ReaderEnds("error")
    /\ UNCHANGED <<acceptorVars, openerVars, appVars, role, delivered, inbound, inRecvClosed, accepted, writerVars,
                   outSendClosed, parentPc, result>>

\* CancelledError at the await slim_reader is parked at: not an Exception, so the
\* handler is skipped and only the finally runs
slim_reader_cancelled ==
    /\ readerPc # "done"
    /\ readerCancel
    /\ ReaderEnds("cancelled")
    /\ UNCHANGED <<acceptorVars, openerVars, appVars, role, delivered, inbound, inRecvClosed, accepted, writerVars,
                   outSendClosed, parentPc, result>>

----------------------------------------------------------------------------
(* slim_writer: write_stream -> session.                                   *)

\* a writer whose handler logs the send failure and does not re-raise it
WriterEnds_Swallows(how) ==
    /\ writerPc' = "done"
    /\ writerExit' = how
    /\ writerItem' = "none"
    /\ outRecvClosed' = TRUE
    /\ PumpEndedQuietly
    /\ writerCancel' = FALSE
    /\ UNCHANGED readerCancel

\* slim_writer leaves its loop: `finally: await write_stream_reader.aclose()`
WriterEnds(how) ==
    /\ writerPc' = "done"
    /\ writerExit' = how
    /\ writerItem' = "none"
    /\ outRecvClosed' = TRUE
    /\ IF how = "error"
       THEN PumpRaised("send", "writer")
       ELSE /\ PumpEndedQuietly
            /\ writerCancel' = FALSE
            /\ UNCHANGED readerCancel

\* `async for message in write_stream_reader` yields the next message, which is
\* serialized and passed to session.publish_async
slim_writer_take ==
    /\ ~writerCancel
    /\ \/ /\ writerPc = "handed"
          /\ taken' = Append(taken, writerItem)
          /\ sent' = Append(sent, Serialize(writerItem))
          /\ UNCHANGED outBuf
       \/ /\ writerPc = "recv"
          /\ outBuf # <<>>
          /\ taken' = Append(taken, Head(outBuf))
          /\ sent' = Append(sent, Serialize(Head(outBuf)))
          /\ outBuf' = Tail(outBuf)
    /\ writerPc' = "publish"
    /\ writerItem' = "none"
    /\ UNCHANGED <<acceptorVars, openerVars, appVars, role, readerVars, inbound, inRecvClosed, accepted, acked, writerExit,
                   outRecvClosed, outSendClosed, groupVars, parentPc, result>>

\* publish_async returned the completion: `await completion.wait_async()`
slim_writer_published ==
    /\ writerPc = "publish"
    /\ ~writerCancel
    /\ writerPc' = "wait"
    /\ UNCHANGED <<acceptorVars, openerVars, appVars, role, readerVars, inbound, inRecvClosed, accepted, outBuf, taken, sent,
                   acked, writerItem, writerExit, outRecvClosed, outSendClosed,
                   groupVars, parentPc, result>>

\* the completion fired: the loop asks the stream for the next message
slim_writer_acked ==
    /\ writerPc = "wait"
    /\ ~writerCancel
    /\ acked' = acked + 1
    /\ writerPc' = "recv"
    /\ UNCHANGED <<acceptorVars, openerVars, appVars, role, readerVars, inbound, inRecvClosed, accepted, outBuf, taken, sent,
                   writerItem, writerExit, outRecvClosed, outSendClosed, groupVars,
                   parentPc, result>>

\* publish_async or wait_async raised: logged and re-raised
slim_writer_send_failed ==
    /\ writerPc \in {"publish", "wait"}
    /\ ~writerCancel
    /\ WriterEnds("error")
    /\ UNCHANGED <<acceptorVars, openerVars, appVars, role, readerVars, inbound, inRecvClosed, accepted, outBuf, taken, sent,
                   acked, outSendClosed, parentPc, result>>

\* an outbound pump that also stops, quietly, in the middle of a send
slim_writer_end_of_stream_Abrupt ==
    /\ writerPc \in {"recv", "publish", "wait"}
    /\ ~writerCancel
    /\ outSendClosed
    /\ outBuf = <<>>
    /\ WriterEnds("return")
    /\ UNCHANGED <<acceptorVars, openerVars, appVars, role, readerVars, inbound, inRecvClosed,
                   accepted, outBuf, taken, sent, acked, outSendClosed, parentPc,
                   result>>

\* the producer closed write_stream and nothing is buffered: EndOfStream ends the
\* `async for`
slim_writer_end_of_stream ==
    /\ writerPc = "recv"
    /\ ~writerCancel
    /\ outSendClosed
    /\ outBuf = <<>>
    /\ WriterEnds("return")
    /\ UNCHANGED <<acceptorVars, openerVars, appVars, role, readerVars, inbound, inRecvClosed, accepted, outBuf, taken, sent,
                   acked, outSendClosed, parentPc, result>>

\* CancelledError at the await slim_writer is parked at; an item already handed
\* to the parked receive is lost with it
slim_writer_cancelled ==
    /\ writerPc # "done"
    /\ writerCancel
    /\ WriterEnds("cancelled")
    /\ UNCHANGED <<acceptorVars, openerVars, appVars, role, readerVars, inbound, inRecvClosed, accepted, outBuf, taken, sent,
                   acked, outSendClosed, parentPc, result>>

----------------------------------------------------------------------------
(* The users of the two streams, running in the body of the scope.         *)

\* write_stream.send(m) returns: the parked receiver gets the item (unless its
\* cancellation is pending), else the buffer takes it if it has room; otherwise
\* the producer stays blocked
ProducerSend ==
    /\ parentPc = "body"
    /\ ~outSendClosed
    /\ ~outRecvClosed
    /\ Len(accepted) < MaxOut
    /\ LET m == OutMsg(Len(accepted) + 1) IN
        /\ accepted' = Append(accepted, m)
        /\ IF writerPc = "recv" /\ ~writerCancel /\ outBuf = <<>>
           THEN /\ writerPc' = "handed"
                /\ writerItem' = m
                /\ UNCHANGED outBuf
           ELSE /\ Len(outBuf) < StreamBufferSize
                /\ outBuf' = Append(outBuf, m)
                /\ UNCHANGED <<writerPc, writerItem>>
    /\ UNCHANGED <<acceptorVars, openerVars, appVars, role, readerVars, inbound, inRecvClosed, taken, sent, acked, writerExit,
                   outRecvClosed, outSendClosed, groupVars, parentPc, result>>

\* the producer closes write_stream
ProducerClose ==
    /\ parentPc = "body"
    /\ ~outSendClosed
    /\ outSendClosed' = TRUE
    /\ UNCHANGED <<acceptorVars, openerVars, appVars, role, readerVars, inbound, inRecvClosed, accepted, writerVars,
                   groupVars, parentPc, result>>

\* read_stream.receive() returns the item slim_reader is parked with
ConsumerReceive ==
    /\ parentPc = "body"
    /\ ~inRecvClosed
    /\ readerPc \in {"send_msg", "send_exc"}
    /\ inbound' = Append(inbound, readerItem)
    /\ readerPc' = IF readerPc = "send_msg" THEN "msg_sent" ELSE "exc_sent"
    /\ UNCHANGED <<acceptorVars, openerVars, appVars, role, delivered, readerItem, readerExit, inSendClosed, inRecvClosed,
                   accepted, writerVars, outSendClosed, groupVars, parentPc, result>>

\* the consumer closes read_stream
ConsumerClose ==
    /\ parentPc = "body"
    /\ ~inRecvClosed
    /\ inRecvClosed' = TRUE
    /\ UNCHANGED <<acceptorVars, openerVars, appVars, role, readerVars, inbound, accepted, writerVars, outSendClosed,
                   groupVars, parentPc, result>>

----------------------------------------------------------------------------
(* create_mcp_streams: the scope around the TaskGroup.                     *)

\* the body returns to the generator: tg.create_task(force_termination()), then
\* TaskGroup.__aexit__ waits for the children
BodyReturns ==
    /\ parentPc = "body"
    /\ ~parentCancel
    /\ forcePc' = "ready"
    /\ parentPc' = "exit_wait"
    /\ UNCHANGED <<acceptorVars, openerVars, appVars, role, readerVars, inbound, inRecvClosed, accepted, writerVars,
                   outSendClosed, tgErrors, aborting, parentCancel, readerCancel,
                   writerCancel, result>>

\* the cancellation the TaskGroup requested reaches the body at its await; the
\* CancelledError is thrown into the generator at the yield and
\* TaskGroup.__aexit__ waits for the children
BodyCancelled ==
    /\ parentPc = "body"
    /\ parentCancel
    /\ parentCancel' = FALSE
    /\ parentPc' = "unwind_wait"
    /\ UNCHANGED <<acceptorVars, openerVars, appVars, role, readerVars, inbound, inRecvClosed, accepted, writerVars,
                   outSendClosed, tgErrors, aborting, forcePc, readerCancel,
                   writerCancel, result>>

\* force_termination runs: raise TerminateTaskGroup()
force_termination ==
    /\ forcePc = "ready"
    /\ forcePc' = "done"
    /\ tgErrors' = tgErrors \cup {"TTG"}
    /\ aborting' = TRUE
    /\ IF aborting
       THEN UNCHANGED <<readerCancel, writerCancel>>
       ELSE /\ readerCancel' = (readerPc # "done")
            /\ writerCancel' = (writerPc # "done")
    /\ UNCHANGED <<acceptorVars, openerVars, appVars, role, readerVars, inbound, inRecvClosed, accepted, writerVars,
                   outSendClosed, parentCancel, parentPc, result>>

\* an except* clause that matches every error
Unhandled_Nothing(errors) == errors \ errors

\* a scope without the except* clause
Unhandled_Everything(errors) == errors

\* `except* TerminateTaskGroup: pass`: what is left of the group's errors
Unhandled(errors) == errors \ {"TTG"}

\* a scope exit that does not wait for the pump tasks
ScopeExit_NoWait ==
    /\ parentPc \in {"exit_wait", "unwind_wait"}
    /\ parentPc' = "done"
    /\ result' = IF Unhandled(tgErrors) = {} THEN "ok" ELSE "raised"
    /\ UNCHANGED <<acceptorVars, openerVars, appVars, role, readerVars, inbound, inRecvClosed,
                   accepted, writerVars, outSendClosed, groupVars>>

\* every child is done: TaskGroup.__aexit__ raises the collected errors as one
\* group, the except* clause drops the TerminateTaskGroup ones, the rest reaches
\* the caller
ScopeExit ==
    /\ parentPc \in {"exit_wait", "unwind_wait"}
    /\ readerPc = "done"
    /\ writerPc = "done"
    /\ forcePc # "ready"
    /\ parentPc' = "done"
    /\ result' = IF Unhandled(tgErrors) = {} THEN "ok" ELSE "raised"
    /\ UNCHANGED <<acceptorVars, openerVars, appVars, role, readerVars, inbound, inRecvClosed, accepted, writerVars,
                   outSendClosed, groupVars>>

----------------------------------------------------------------------------

Next ==
    \/ slim_reader_receive
    \/ slim_reader_continue
    \/ slim_reader_break
    \/ slim_reader_broken
    \/ slim_reader_cancelled
    \/ slim_writer_take
    \/ slim_writer_published
    \/ slim_writer_acked
    \/ slim_writer_send_failed
    \/ slim_writer_end_of_stream
    \/ slim_writer_cancelled
    \/ ProducerSend
    \/ ProducerClose
    \/ ConsumerReceive
    \/ ConsumerClose
    \/ BodyReturns
    \/ BodyCancelled
    \/ force_termination
    \/ ScopeExit

Spec == Init /\ [][Next]_vars

\* The event loop runs every task that is ready: a task whose await can return
\* does resume. Nothing obliges the peer to deliver or acknowledge, the users of
\* the streams to act, or the body to return.
FairSpec ==
    /\ Spec
    /\ WF_vars(slim_reader_continue)
    /\ WF_vars(slim_reader_break)
    /\ WF_vars(slim_reader_broken)
    /\ WF_vars(slim_reader_cancelled)
    /\ WF_vars(slim_writer_take)
    /\ WF_vars(slim_writer_end_of_stream)
    /\ WF_vars(slim_writer_cancelled)
    /\ WF_vars(BodyCancelled)
    /\ WF_vars(force_termination)
    /\ WF_vars(ScopeExit)

----------------------------------------------------------------------------
(* Vocabulary of the properties.                                           *)

IsPrefix(s, t) == Len(s) <= Len(t) /\ \A i \in 1..Len(s) : s[i] = t[i]

DecodeFails(o) == o.kind = "payload" /\ ~Deserialize(o.payload).ok
DecodesWell(o) == o.kind = "payload" /\ Deserialize(o.payload).ok

\* the receive call itself reported the closure this role recognises
SessionClosedReported ==
    /\ delivered # <<>>
    /\ Last(delivered).kind = "exc"
    /\ Contains(Last(delivered).text, ClosedMarker(role))

PumpsDone == readerPc = "done" /\ writerPc = "done"

\* the body returned normally and the scope has finished exiting
NormalExitDone == parentPc = "done" /\ forcePc # "none"

----------------------------------------------------------------------------
(* C1..C10: the stream bridge.                                             *)

\* C1: while the caller is still inside the scope, a pump that has terminated,
\* for whatever reason, has forced its sibling to terminate: the sibling is done
\* or its cancellation has been requested.
C1_EitherPumpStopsSibling ==
    parentPc = "body" =>
        /\ (readerPc = "done" /\ writerPc # "done") => writerCancel
        /\ (writerPc = "done" /\ readerPc # "done") => readerCancel

\* C2: once receive has reported the session closed, both pumps reach "done" and
\* the bridge scope finishes, whatever slim_writer was parked at.
C2_ClosedTerminatesBridge ==
    SessionClosedReported ~> (PumpsDone /\ parentPc = "done")

C2_Witness ==
    /\ SessionClosedReported
    /\ writerPc = "wait"
    /\ writerCancel
    /\ parentPc = "body"

\* C3 as stated: a scope whose body returned normally ends with both pumps done
\* and raises nothing.
C3_NormalExitNeverRaises ==
    NormalExitDone => (PumpsDone /\ result = "ok")

\* C3 as amended: a scope whose body returned normally ends with both pumps done,
\* and it raises exactly when a pump failed by itself (a send failed, or the
\* hand-off to an inbound stream whose consumer had closed it); the termination
\* signal injected at exit is never raised.
C3_NormalExitStopsPumps ==
    NormalExitDone =>
        /\ PumpsDone
        /\ (result = "raised") <=> (readerExit = "error" \/ writerExit = "error")

\* neither pump ended by itself; slim_reader was cancelled while blocked handing
\* over a message nobody read
C3_Witness ==
    /\ NormalExitDone
    /\ result = "ok"
    /\ readerExit = "cancelled"
    /\ writerExit = "cancelled"
    /\ Len(inbound) < Len(delivered)
    /\ DecodesWell(Last(delivered))

\* C4: the payloads passed to publish_async are, one for one and in order, the
\* serialized messages the writer took from the outbound stream, which are a
\* prefix of what the stream accepted.
C4_OutboundFifo ==
    /\ Len(sent) = Len(taken)
    /\ \A i \in 1..Len(sent) :
        /\ Deserialize(sent[i]).ok
        /\ Deserialize(sent[i]).msg = taken[i]
    /\ IsPrefix(taken, accepted)

C4_Witness == Len(sent) = 2 /\ acked = 2

\* C5: after a normal exit with no send failure and a session that only delivered
\* well-formed messages, every message the outbound stream accepted (and the
\* writer took) was sent and its completion awaited.
C5_AcceptedAllSentAtExit ==
    (/\ NormalExitDone
     /\ writerExit # "error"
     /\ readerExit \notin {"ttg", "error"}
     /\ \A i \in 1..Len(delivered) : DecodesWell(delivered[i])
     /\ Len(taken) = Len(accepted)) =>
        (Len(sent) = Len(accepted) /\ acked = Len(accepted))

\* C6: at most one message is taken and not acknowledged, and the stream admits
\* a message only when every earlier one is acknowledged.
C6_OneInFlight ==
    /\ Len(taken) <= acked + 1
    /\ Len(accepted) <= acked + 1

C6_Witness == Len(accepted) = 2 /\ acked = 1 /\ writerPc = "publish"

\* C7: the messages the inbound stream yields are the well-formed payloads
\* receive returned, in order and unaltered (re-encoding a yielded message gives
\* the payload back); none is skipped: at most the last one is still to be
\* yielded, and none is when the pump is back in receive.
WellFormedDelivered == SelectSeq(delivered, DecodesWell)
MessagesYielded == SelectSeq(inbound, LAMBDA x : x.kind = "msg")

C7_InboundFifo ==
    /\ Len(MessagesYielded) <= Len(WellFormedDelivered)
    /\ \A i \in 1..Len(MessagesYielded) :
        Serialize(MessagesYielded[i].msg) = WellFormedDelivered[i].payload
    /\ Len(WellFormedDelivered) <= Len(MessagesYielded) + 1
    /\ readerPc = "recv" => Len(MessagesYielded) = Len(WellFormedDelivered)

C7_Witness == Len(MessagesYielded) = 2 /\ MessagesYielded[1] # MessagesYielded[2]

\* C8: a send that fails ends slim_writer with the failure collected by the
\* TaskGroup; from then on nothing is taken, sent or admitted, and the scope
\* raises to its caller.
C8_SendFailureFatal ==
    [][writerExit' = "error" =>
         /\ writerPc' = "done"
         /\ "send" \in tgErrors'
         /\ parentPc' = "done" => result' = "raised"
         /\ writerExit = "error" =>
               (taken' = taken /\ sent' = sent /\ accepted' = accepted)]_vars

C8_Witness == writerExit = "error" /\ parentPc = "done" /\ result = "raised"

\* C9: slim_reader leaves its loop by `break` only after a fault of receive,
\* never after a payload that failed to decode.
C9_DecodeFailureKeepsPump ==
    readerExit = "return" => ~DecodeFails(Last(delivered))

\* C10: once slim_reader is past a payload that failed to decode (it broke out
\* of the loop or raised the termination signal), the inbound stream holds an
\* error value, not a message, at the position of that payload.
C10_DecodeFailureOneError ==
    (readerExit \in {"return", "ttg"} /\ DecodeFails(Last(delivered))) =>
        /\ Len(inbound) = Len(delivered)
        /\ Last(inbound).kind = "exc"

----------------------------------------------------------------------------
(* C11..C13: how slim_reader ends.                                         *)

\* an exception of receive that this role does not take for the closure
ReceiveFault(o) == o.kind = "exc" /\ ~Contains(o.text, ClosedMarker(role))

ErrorValuesYielded == SelectSeq(inbound, LAMBDA x : x.kind = "exc")

\* C11: a fault of receive that is not the closure is the last outcome receive
\* ever produces (slim_reader is never parked in receive again), the inbound
\* stream never holds more than one error value, and once slim_reader has left
\* its loop by `break` the stream holds exactly that fault, once, at the
\* position of the failed receive.
C11_ReceiveFaultFailStop ==
    \A i \in 1..Len(delivered) : ReceiveFault(delivered[i]) =>
        /\ i = Len(delivered)
        /\ readerPc # "recv"
        /\ Len(ErrorValuesYielded) <= 1
        /\ readerExit = "return" =>
              /\ Len(inbound) = i
              /\ inbound[i] = ErrVal(delivered[i].text)
              /\ Len(ErrorValuesYielded) = 1

C11_Witness ==
    /\ Len(delivered) = 2
    /\ ReceiveFault(delivered[2])
    /\ readerExit = "return"
    /\ Len(inbound) = 2

----------------------------------------------------------------------------
(* run_mcp_server: the accept loop and the handle_session tasks.           *)
(*                                                                         *)
(* One step of the loop runs from the return of listen_for_session_async   *)
(* to the next call of it. A task made by asyncio.create_task runs its     *)
(* first step only when the loop task is suspended; an await of a call     *)
(* that has its result at hand does not suspend, so the next listen can    *)
(* return while tasks created before it have not started.                  *)

\* A task is "created", "running" (its bridge open, mcp_app.run awaited), "done",
\* "logged" (an Exception caught and logged) or "failed" (ended by what
\* `except Exception` does not catch).

\* asyncio.create_task(handle_session()) for the session listen just returned
NewTask(s) == [of |-> s, bound |-> 0, state |-> "created"]

\* a client's session reaches the server's transport
SessionArrives ==
    /\ arrived < MaxSessions
    /\ arrived' = arrived + 1
    /\ UNCHANGED <<bridgeVars, openerVars, appVars, released, accPc, accCancel, session, listened,
                   tasks, acceptErrors>>

\* a loop that runs the handler itself before it listens again
listen_for_session_returns_Inline ==
    /\ accPc = "listening"
    /\ ~accCancel
    /\ listened < arrived
    /\ \A i \in 1..Len(tasks) : tasks[i].state \in {"done", "logged", "failed"}
    /\ session' = listened + 1
    /\ listened' = listened + 1
    /\ tasks' = Append(tasks, NewTask(listened + 1))
    /\ UNCHANGED <<bridgeVars, openerVars, appVars, released, accPc, accCancel, arrived, acceptErrors>>

\* `session = await slim_app.listen_for_session_async(...)` returns the oldest
\* session not yet returned; handle_session is defined and its task created.
listen_for_session_returns ==
    /\ accPc = "listening"
    /\ ~accCancel
    /\ listened < arrived
    /\ session' = listened + 1
    /\ listened' = listened + 1
    /\ tasks' = Append(tasks, NewTask(listened + 1))
    /\ UNCHANGED <<bridgeVars, openerVars, appVars, released, accPc, accCancel, arrived, acceptErrors>>

\* a failed listen that ends the loop
listen_for_session_fails_Fatal ==
    /\ accPc = "listening"
    /\ ~accCancel
    /\ Len(acceptErrors) < MaxAcceptFailures
    /\ \E kind \in {"timeout", "error"} : acceptErrors' = Append(acceptErrors, kind)
    /\ accPc' = "failed"
    /\ UNCHANGED <<bridgeVars, openerVars, appVars, released, accCancel, session, arrived, listened, tasks>>

\* listen_for_session_async raises (the timeout elapsed, a transport error):
\* `except Exception` logs it and the loop calls listen again.
listen_for_session_fails ==
    /\ accPc = "listening"
    /\ ~accCancel
    /\ Len(acceptErrors) < MaxAcceptFailures
    /\ \E kind \in {"timeout", "error"} : acceptErrors' = Append(acceptErrors, kind)
    /\ UNCHANGED <<bridgeVars, openerVars, appVars, released, accPc, accCancel, session, arrived,
                   listened, tasks>>

\* the owner of the server task cancels it (test_client_server.py:90, 184)
CancelServer ==
    /\ accPc = "listening"
    /\ ~accCancel
    /\ accCancel' = TRUE
    /\ UNCHANGED <<bridgeVars, openerVars, appVars, released, accPc, session, arrived, listened, tasks,
                   acceptErrors>>

\* a loop whose handler also catches the cancellation and listens again
run_mcp_server_cancelled_Swallowed ==
    /\ accPc = "listening"
    /\ accCancel
    /\ accCancel' = FALSE
    /\ UNCHANGED <<bridgeVars, openerVars, appVars, released, accPc, session, arrived, listened, tasks,
                   acceptErrors>>

\* a loop that owns its session tasks (as a TaskGroup would): ending by
\* cancellation cancels every task that has not ended
run_mcp_server_cancelled_OwnsTasks ==
    /\ accPc = "listening"
    /\ accCancel
    /\ accPc' = "cancelled"
    /\ tasks' = [i \in 1..Len(tasks) |->
                    IF tasks[i].state \in {"created", "running"}
                    THEN [tasks[i] EXCEPT !.state = "cancelled"]
                    ELSE tasks[i]]
    /\ UNCHANGED <<bridgeVars, openerVars, appVars, released, accCancel, session, arrived, listened,
                   acceptErrors>>

\* CancelledError is raised at the await of listen; it is not an Exception, so
\* `except Exception` lets it through and run_mcp_server ends.
run_mcp_server_cancelled ==
    /\ accPc = "listening"
    /\ accCancel
    /\ accPc' = "cancelled"
    /\ UNCHANGED <<bridgeVars, openerVars, appVars, released, accCancel, session, arrived, listened,
                   tasks, acceptErrors>>

\* First step of a handle_session task (tasks start in the order of their
\* creation): `create_mcp_streams(session)` reads the variable `session` of
\* run_mcp_server as it is now, and the bridge is opened on that session.
handle_session_starts ==
    \E i \in 1..Len(tasks) :
        /\ tasks[i].state = "created"
        /\ \A j \in 1..(i - 1) : tasks[j].state # "created"
        /\ tasks' = [tasks EXCEPT ![i].state = "running", ![i].bound = session]
        /\ UNCHANGED <<bridgeVars, openerVars, appVars, released, accPc, accCancel, session, arrived,
                       listened, acceptErrors>>

\* mcp_app.run returns and the bridge scope exits
handle_session_completes ==
    \E i \in 1..Len(tasks) :
        /\ tasks[i].state = "running"
        /\ tasks' = [tasks EXCEPT ![i].state = "done"]
        /\ UNCHANGED <<bridgeVars, openerVars, appVars, released, accPc, accCancel, session, arrived,
                       listened, acceptErrors>>

\* a handler whose exception reaches the accept loop
handle_session_faults_Escapes ==
    \E i \in 1..Len(tasks) :
        /\ tasks[i].state = "running"
        /\ tasks' = [tasks EXCEPT ![i].state = "failed"]
        /\ accPc' = "failed"
        /\ UNCHANGED <<bridgeVars, openerVars, appVars, released, accCancel, session, arrived, listened,
                       acceptErrors>>

\* The bridge or mcp_app.run raises inside handle_session. An Exception is
\* caught and logged by `except Exception` and the task ends normally; anything
\* else ends the task with that exception, which nobody awaits.
handle_session_faults ==
    \E i \in 1..Len(tasks) :
        /\ tasks[i].state = "running"
        /\ \E how \in {"logged", "failed"} :
              tasks' = [tasks EXCEPT ![i].state = how]
        /\ UNCHANGED <<bridgeVars, openerVars, appVars, released, accPc, accCancel, session, arrived,
                       listened, acceptErrors>>

AcceptorNext ==
    \/ SessionArrives
    \/ listen_for_session_returns
    \/ listen_for_session_fails
    \/ CancelServer
    \/ run_mcp_server_cancelled
    \/ handle_session_starts
    \/ handle_session_completes
    \/ handle_session_faults

AcceptorInit == Init /\ role = "server"

AcceptorSpec == AcceptorInit /\ [][AcceptorNext]_vars

\* The event loop resumes the loop task when listen has a session for it or has
\* been cancelled, and runs the tasks it was given. Nothing obliges a session to
\* arrive or a handler to finish.
AcceptorFairSpec ==
    /\ AcceptorSpec
    /\ WF_vars(listen_for_session_returns)
    /\ WF_vars(run_mcp_server_cancelled)
    /\ WF_vars(handle_session_starts)

----------------------------------------------------------------------------
(* C14..C18: the accept loop.                                              *)

\* the accept loop can take a session now
CanAccept == ENABLED listen_for_session_returns

\* C14: a step in which a handle_session task ends with a fault leaves the
\* accept loop where it was (still listening, nothing cancelled, its `session`
\* untouched) and every other task exactly as it was.
C14_HandlerFaultIsolated ==
    [][\A i \in 1..Len(tasks) :
          (tasks[i].state = "running" /\ tasks'[i].state \in {"logged", "failed"}) =>
              /\ accPc' = accPc
              /\ accCancel' = accCancel
              /\ session' = session
              /\ listened' = listened
              /\ Len(tasks') = Len(tasks)
              /\ \A j \in 1..Len(tasks) : j # i => tasks'[j] = tasks[j]]_vars

C14_Witness ==
    /\ Len(tasks) = 2
    /\ tasks[1].state = "failed"
    /\ tasks[2].state = "running"
    /\ accPc = "listening"
    /\ CanAccept

\* C15: a listen that fails or times out leaves the loop listening, spawns no
\* task and returns no session; and a session that has arrived and is not yet
\* accepted when failures have been logged is accepted later, unless the server
\* is cancelled.
C15_AcceptFailureKeepsLoop ==
    /\ [][Len(acceptErrors') > Len(acceptErrors) =>
            /\ accPc' = "listening"
            /\ tasks' = tasks
            /\ listened' = listened]_vars
    /\ \A s \in 1..MaxSessions :
          (acceptErrors # <<>> /\ arrived >= s /\ listened < s)
              ~> (Len(tasks) >= s \/ accCancel)

C15_Witness ==
    /\ acceptErrors = <<"timeout", "error">>
    /\ Len(tasks) = 1
    /\ tasks[1].state = "running"
    /\ accPc = "listening"
    /\ ~accCancel

\* C16: the loop is only ever listening or ended by cancellation; it has ended
\* only if its cancellation was requested, and a requested cancellation does
\* end it.
C16_OnlyCancellationStops ==
    /\ [](accPc \in {"listening", "cancelled"})
    /\ [](accPc = "cancelled" => accCancel)
    /\ accCancel ~> (accPc = "cancelled")

C16_Witness ==
    /\ accPc = "cancelled"
    /\ acceptErrors # <<>>
    /\ \E i \in 1..Len(tasks) : tasks[i].state = "running"

\* C17: every handle_session task that has started opened its bridge on the
\* session whose arrival made the loop create it, so each accepted session has
\* one bridge and one handler of its own.
C17_OneBridgePerSession ==
    \A i \in 1..Len(tasks) :
        tasks[i].state # "created" => tasks[i].bound = tasks[i].of

\* C18: every session listen returned has a task, a session that has arrived
\* gets its task eventually (unless the server is cancelled), and the loop can
\* take the next session whatever the earlier handlers are doing.
C18_EverySessionGetsHandler ==
    /\ [](Len(tasks) = listened)
    /\ []((accPc = "listening" /\ ~accCancel /\ listened < arrived) => CanAccept)
    /\ \A s \in 1..MaxSessions : (arrived >= s) ~> (Len(tasks) >= s \/ accCancel)

C18_Witness ==
    /\ Len(tasks) = 3
    /\ tasks[1].state = "running"
    /\ tasks[2].state = "done"
    /\ tasks[3].state = "running"
    /\ ~accCancel

----------------------------------------------------------------------------
(* create_slim_session: one scope per caller, each with a session of its   *)
(* own. The transport's delete_session_async and the completion it returns *)
(* are taken to succeed.                                                   *)

Openers == 1..NumOpeners

\* what is left alone by a step of caller c's scope
OpenerFrame == UNCHANGED <<bridgeVars, acceptorVars, appVars>>

\* `await slim_app.create_session_async(...)` returns session_with_completion
create_session_returns(c) ==
    /\ opPc[c] = "create"
    /\ opPc' = [opPc EXCEPT ![c] = "establish"]
    /\ UNCHANGED <<opEstablished, opDeletes, opAwaited, opBody, opResult>>
    /\ OpenerFrame

\* create_session_async raises: the error leaves create_slim_session
create_session_fails(c) ==
    /\ opPc[c] = "create"
    /\ opPc' = [opPc EXCEPT ![c] = "done"]
    /\ opResult' = [opResult EXCEPT ![c] = "create_error"]
    /\ UNCHANGED <<opEstablished, opDeletes, opAwaited, opBody>>
    /\ OpenerFrame

\* the transport establishes the session: its completion fires
SessionEstablished(c) ==
    /\ opPc[c] = "establish"
    /\ ~opEstablished[c]
    /\ opEstablished' = [opEstablished EXCEPT ![c] = TRUE]
    /\ UNCHANGED <<opPc, opDeletes, opAwaited, opBody, opResult>>
    /\ OpenerFrame

\* a scope that yields the session without waiting for its establishment
establishment_wait_returns_Early(c) ==
    /\ opPc[c] = "establish"
    /\ opPc' = [opPc EXCEPT ![c] = "body"]
    /\ opBody' = [opBody EXCEPT ![c] = "running"]
    /\ UNCHANGED <<opEstablished, opDeletes, opAwaited, opResult>>
    /\ OpenerFrame

\* `await session_with_completion.completion.wait_async()` returns, and the
\* session is yielded to the body
establishment_wait_returns(c) ==
    /\ opPc[c] = "establish"
    /\ opEstablished[c]
    /\ opPc' = [opPc EXCEPT ![c] = "body"]
    /\ opBody' = [opBody EXCEPT ![c] = "running"]
    /\ UNCHANGED <<opEstablished, opDeletes, opAwaited, opResult>>
    /\ OpenerFrame

\* a scope that answers a failed establishment by creating the session again
establishment_wait_fails_Retries(c) ==
    /\ opPc[c] = "establish"
    /\ ~opEstablished[c]
    /\ opPc' = [opPc EXCEPT ![c] = "create"]
    /\ UNCHANGED <<opEstablished, opDeletes, opAwaited, opBody, opResult>>
    /\ OpenerFrame

\* the wait raises (the session was not established within the retries): the
\* await is outside the try, the error leaves create_slim_session
establishment_wait_fails(c) ==
    /\ opPc[c] = "establish"
    /\ ~opEstablished[c]
    /\ opPc' = [opPc EXCEPT ![c] = "done"]
    /\ opResult' = [opResult EXCEPT ![c] = "establish_error"]
    /\ UNCHANGED <<opEstablished, opDeletes, opAwaited, opBody>>
    /\ OpenerFrame

\* a scope without the `finally`: a body that raises skips the deletion
BodyEnds_NoFinally(c, how) ==
    IF how = "raised"
    THEN /\ opPc' = [opPc EXCEPT ![c] = "done"]
         /\ opBody' = [opBody EXCEPT ![c] = how]
         /\ opResult' = [opResult EXCEPT ![c] = "body_error"]
         /\ UNCHANGED <<opEstablished, opDeletes, opAwaited>>
    ELSE /\ opPc' = [opPc EXCEPT ![c] = "delete"]
         /\ opBody' = [opBody EXCEPT ![c] = how]
         /\ opDeletes' = [opDeletes EXCEPT ![c] = @ + 1]
         /\ UNCHANGED <<opEstablished, opAwaited, opResult>>

\* the body is left, by returning or by raising: `finally` calls
\* slim_app.delete_session_async(session) and awaits it
BodyEnds(c, how) ==
    /\ opPc' = [opPc EXCEPT ![c] = "delete"]
    /\ opBody' = [opBody EXCEPT ![c] = how]
    /\ opDeletes' = [opDeletes EXCEPT ![c] = @ + 1]
    /\ UNCHANGED <<opEstablished, opAwaited, opResult>>

body_returns(c) ==
    /\ opPc[c] = "body"
    /\ BodyEnds(c, "returned")
    /\ OpenerFrame

body_raises(c) ==
    /\ opPc[c] = "body"
    /\ BodyEnds(c, "raised")
    /\ OpenerFrame

\* delete_session_async returns the completion: `await completion.wait_async()`
delete_session_returns(c) ==
    /\ opPc[c] = "delete"
    /\ opPc' = [opPc EXCEPT ![c] = "delete_wait"]
    /\ UNCHANGED <<opEstablished, opDeletes, opAwaited, opBody, opResult>>
    /\ OpenerFrame

\* the deletion completion fired: the finally is over, and what the body raised,
\* if anything, goes on to the caller
deletion_wait_returns(c) ==
    /\ opPc[c] = "delete_wait"
    /\ opPc' = [opPc EXCEPT ![c] = "done"]
    /\ opAwaited' = [opAwaited EXCEPT ![c] = TRUE]
    /\ opResult' = [opResult EXCEPT ![c] =
                       IF opBody[c] = "raised" THEN "body_error" ELSE "ok"]
    /\ UNCHANGED <<opEstablished, opDeletes, opBody>>
    /\ OpenerFrame

create_session == \E c \in Openers : create_session_returns(c) \/ create_session_fails(c)
establishment == \E c \in Openers : SessionEstablished(c)
establishment_wait ==
    \E c \in Openers : establishment_wait_returns(c) \/ establishment_wait_fails(c)
body == \E c \in Openers : body_returns(c) \/ body_raises(c)
delete_session == \E c \in Openers : delete_session_returns(c)
deletion_wait == \E c \in Openers : deletion_wait_returns(c)

OpenerNext ==
    \/ create_session
    \/ establishment
    \/ establishment_wait
    \/ body
    \/ delete_session
    \/ deletion_wait

OpenerInit == Init /\ role = "client"

OpenerSpec == OpenerInit /\ [][OpenerNext]_vars

----------------------------------------------------------------------------
(* C19..C20: the session opener.                                           *)

C20_BodyAfterEstablishment ==
    \A c \in Openers : opBody[c] # "none" => opEstablished[c]

C20_Witness ==
    /\ opPc[1] = "body"
    /\ opEstablished[1]
    /\ opPc[2] = "establish"
    /\ ~opEstablished[2]

----------------------------------------------------------------------------
(* create_client_streams: create_slim_session around create_mcp_streams,   *)
(* for caller 1. The bridge is opened in the step that yields the session  *)
(* and its scope is the body of create_slim_session; the caller's own body *)
(* is the body of the bridge scope.                                        *)

\* `async with create_mcp_streams(session)` has been entered
BridgeOpen == opBody[1] = "running"

\* The bridge scope has finished: the `with` block of create_slim_session is
\* left, normally or with what the bridge scope raised, and its finally runs.
create_client_streams_exit ==
    /\ opPc[1] = "body"
    /\ parentPc = "done"
    /\ BodyEnds(1, IF result = "raised" THEN "raised" ELSE "returned")
    /\ OpenerFrame

ClientNext ==
    \/ create_session_returns(1)
    \/ create_session_fails(1)
    \/ SessionEstablished(1)
    \/ establishment_wait_returns(1)
    \/ establishment_wait_fails(1)
    \/ BridgeOpen /\ slim_reader_receive
    \/ BridgeOpen /\ slim_reader_continue
    \/ BridgeOpen /\ slim_reader_break
    \/ BridgeOpen /\ slim_reader_broken
    \/ BridgeOpen /\ slim_reader_cancelled
    \/ BridgeOpen /\ slim_writer_take
    \/ BridgeOpen /\ slim_writer_published
    \/ BridgeOpen /\ slim_writer_acked
    \/ BridgeOpen /\ slim_writer_send_failed
    \/ BridgeOpen /\ slim_writer_end_of_stream
    \/ BridgeOpen /\ slim_writer_cancelled
    \/ BridgeOpen /\ ProducerSend
    \/ BridgeOpen /\ ProducerClose
    \/ BridgeOpen /\ ConsumerReceive
    \/ BridgeOpen /\ ConsumerClose
    \/ BridgeOpen /\ BodyReturns
    \/ BridgeOpen /\ BodyCancelled
    \/ BridgeOpen /\ force_termination
    \/ BridgeOpen /\ ScopeExit
    \/ create_client_streams_exit
    \/ delete_session_returns(1)
    \/ deletion_wait_returns(1)

ClientSpec == OpenerInit /\ [][ClientNext]_vars

----------------------------------------------------------------------------
(* C21..C22: create_client_streams.                                        *)

EstablishErrors == {"create_error", "establish_error"}

\* C21: a scope that leaves create_session_async or the wait for the
\* establishment by an error is finished with that error as its outcome, its
\* body was never run and no bridge was opened (nothing received, sent or
\* yielded), and create_session_async is never awaited a second time.
C21_EstablishFailurePropagates ==
    /\ [](opResult[1] \in EstablishErrors =>
            /\ opPc[1] = "done"
            /\ opBody[1] = "none"
            /\ ~BridgeOpen
            /\ delivered = <<>> /\ sent = <<>> /\ inbound = <<>> /\ accepted = <<>>)
    /\ [][(opPc[1] \in {"create", "establish"} /\ opPc'[1] = "done") =>
             opResult'[1] \in EstablishErrors]_vars
    /\ [][opPc[1] # "create" => opPc'[1] # "create"]_vars

C21_Witness ==
    /\ opResult[1] = "establish_error"
    /\ opPc[1] = "done"

\* C22: deletion of the session has been requested only when both pumps are
\* done and the bridge scope has finished, whatever its outcome, and from then
\* on nothing is received from the session or sent on it.
C22_StreamsBeforeSession ==
    /\ [](opDeletes[1] > 0 => (PumpsDone /\ parentPc = "done"))
    /\ [][opDeletes[1] > 0 => (delivered' = delivered /\ sent' = sent)]_vars

C22_Witness ==
    /\ opDeletes[1] = 1
    /\ opAwaited[1]
    /\ result = "raised"
    /\ opResult[1] = "body_error"

----------------------------------------------------------------------------
(* C23: release of accepted sessions.                                      *)

\* the handle_session task of the i-th accepted session has ended
TaskEnded(i) == i <= Len(tasks) /\ tasks[i].state \in {"done", "logged", "failed"}

\* C23: once the task of an accepted session has ended (handler completed,
\* bridge terminated, or fault), the server passes that session to
\* delete_session_async.
C23_AcceptedSessionsReleased ==
    \A s \in 1..MaxSessions : TaskEnded(s) ~> (s \in released)

----------------------------------------------------------------------------
(* C24, C26, C27, C29: the two roles, and how the pumps end.               *)

\* slim_reader's exception handler ran for the receive outcome o
Handled(o) == o.kind = "exc" \/ DecodeFails(o)

\* the str(exc) the handler looked at
HandledText(o) == IF o.kind = "exc" THEN o.text ELSE Deserialize(o.payload).text

\* the closure test of role r
ClosureRecognised(r, text) == Contains(text, ClosedMarker(r))

\* C24: the two bridges differ in nothing but the closure test of slim_reader,
\* so they are the same state machine exactly when that test gives the same
\* answer in both roles for every exception the handler gets to see.
C24_RolesAgree ==
    \A i \in 1..Len(delivered) :
        Handled(delivered[i]) =>
            (ClosureRecognised("client", HandledText(delivered[i]))
                <=> ClosureRecognised("server", HandledText(delivered[i])))

\* C26: once the outbound pump has ended by a send failure, the inbound pump is
\* done or its cancellation is requested, and when the scope has finished
\* (raising the failure to its caller) the inbound pump is done and the
\* producer side of the inbound stream is closed.
C26_SendFailureStopsReader ==
    writerExit = "error" =>
        /\ readerPc # "done" => readerCancel
        /\ parentPc = "done" =>
              /\ readerPc = "done"
              /\ inSendClosed
              /\ result = "raised"

C26_Witness ==
    /\ writerExit = "error"
    /\ readerExit = "cancelled"
    /\ inSendClosed
    /\ parentPc = "done"
    /\ result = "raised"

\* C27: an outbound pump that ended on the end of the outbound stream has sent,
\* and had acknowledged, every message the stream accepted and it took; the
\* step in which it ends collects no error, cancels nobody and puts nothing on
\* the inbound stream.
C27_OutboundExhaustionClean ==
    /\ [](writerExit = "return" =>
            /\ outSendClosed
            /\ Len(taken) = Len(accepted)
            /\ Len(sent) = Len(taken)
            /\ acked = Len(sent)
            /\ "send" \notin tgErrors)
    /\ [][(writerExit # "return" /\ writerExit' = "return") =>
            /\ inbound' = inbound
            /\ tgErrors' = tgErrors
            /\ aborting' = aborting
            /\ readerCancel' = readerCancel
            /\ parentCancel' = parentCancel
            /\ result' = result]_vars

C27_Witness ==
    /\ writerExit = "return"
    /\ Len(sent) = 2
    /\ acked = 2
    /\ readerPc = "recv"
    /\ parentPc = "body"

\* C29: slim_reader has raised the termination signal only when the last
\* outcome of receive was an exception of receive itself.
C29_ClosureOnlyFromReceive ==
    readerExit = "ttg" => Last(delivered).kind = "exc"

----------------------------------------------------------------------------
(* C30: every created session is deleted.                                  *)

\* create_session_async returned a session handle to caller c
HandleReturned(c) == opPc[c] \notin {"create"} /\ opResult[c] # "create_error"

\* C30: when create_slim_session has finished for a caller to whom the
\* transport returned a session handle, that handle has been passed to
\* delete_session_async.
C30_CreatedSessionsDeleted ==
    \A c \in Openers : (HandleReturned(c) /\ opPc[c] = "done") => opDeletes[c] = 1

----------------------------------------------------------------------------
(* One handle_session task in full. The server has accepted two sessions,  *)
(* both tasks have started and a third session is waiting at the           *)
(* transport; the task of the first session is run on the bridge (the body *)
(* of the bridge scope is mcp_app.run, which uses the two streams), the    *)
(* task of the second stays as it is, and the loop goes on accepting.      *)
(* The task can be cancelled from outside; on top of the states            *)
(* of the accept loop's model it is then "cancelling" (Task.cancel() called, *)
(* CancelledError not yet thrown in), "propagating" (TaskGroup.__aexit__   *)
(* holds the CancelledError to re-raise it) and at last "cancelled".       *)

\* handle_session tasks that have started on the session they were created for
StartedTask(s) == [of |-> s, bound |-> s, state |-> "running"]

ServerSessionInit ==
    /\ BridgeStart
    /\ role = "server"
    /\ OpenerStart
    /\ AppIdle
    /\ accPc = "listening"
    /\ accCancel = FALSE
    /\ tasks = <<StartedTask(1), StartedTask(2)>>
    /\ session = Len(tasks)
    /\ listened = Len(tasks)
    /\ arrived = Len(tasks) + 1
    /\ acceptErrors = <<>>
    /\ released = {}

SessionTaskLive ==
    /\ Len(tasks) >= 1
    /\ tasks[1].state \in {"running", "cancelling", "propagating", "absorbed"}

\* a step of a pump task or of force_termination, inside the session task's group
SessionPump(A) == SessionTaskLive /\ A

\* a step of the session task itself; with a cancellation pending its next step
\* is the CancelledError
SessionBody(A) == SessionTaskLive /\ tasks[1].state # "cancelling" /\ A

\* TaskGroup._abort(): every child that is not done is cancelled
TaskGroupAbort ==
    /\ aborting' = TRUE
    /\ readerCancel' = (readerCancel \/ readerPc # "done")
    /\ writerCancel' = (writerCancel \/ writerPc # "done")
    /\ forcePc' = IF forcePc = "ready" THEN "cancelled" ELSE forcePc

\* Task.cancel() is called, once, on the running task of session 1
CancelSessionTask ==
    /\ Len(tasks) >= 1
    /\ tasks[1].state = "running"
    /\ parentPc # "done"
    /\ tasks' = [tasks EXCEPT ![1].state = "cancelling"]
    /\ UNCHANGED <<bridgeVars, openerVars, appVars, released, accPc, accCancel, session,
                   arrived, listened, acceptErrors>>

\* a cancellation that ends the task at once and leaves its pumps alone
session_task_cancel_delivered_NoAbort ==
    /\ Len(tasks) >= 1
    /\ tasks[1].state = "cancelling"
    /\ tasks' = [tasks EXCEPT ![1].state = "cancelled"]
    /\ UNCHANGED <<bridgeVars, openerVars, appVars, released, accPc, accCancel, session,
                   arrived, listened, acceptErrors>>

\* The CancelledError reaches the session task. In the body (mcp_app.run lets
\* it through) it is thrown into the bridge scope: TaskGroup.__aexit__ aborts
\* the group and keeps the error to re-raise it. While __aexit__ is already
\* waiting for the children it is caught there: kept, with an abort, if the
\* group was not aborting, dropped ("absorbed") otherwise.
session_task_cancel_delivered ==
    /\ Len(tasks) >= 1
    /\ tasks[1].state = "cancelling"
    /\ parentPc \in {"body", "exit_wait", "unwind_wait"}
    /\ parentPc' = IF parentPc = "body" THEN "unwind_wait" ELSE parentPc
    /\ parentCancel' = FALSE
    /\ IF aborting
       THEN UNCHANGED <<aborting, readerCancel, writerCancel, forcePc>>
       ELSE TaskGroupAbort
    /\ tasks' = [tasks EXCEPT ![1].state =
                    IF parentPc = "body" \/ ~aborting THEN "propagating"
                    ELSE "absorbed"]
    /\ UNCHANGED <<openerVars, appVars, released, accPc, accCancel, session, arrived, listened,
                   acceptErrors, role, readerVars, inbound, inRecvClosed, accepted,
                   writerVars, outSendClosed, tgErrors, result>>

\* The bridge scope has finished and handle_session ends: by the CancelledError
\* when one is kept and the group collected no error, normally when the scope
\* raised nothing, and through `except Exception` (logged) when it raised.
session_task_ends ==
    /\ Len(tasks) >= 1
    /\ tasks[1].state \in {"running", "propagating", "absorbed"}
    /\ parentPc = "done"
    /\ tasks' = [tasks EXCEPT ![1].state =
                    IF tasks[1].state = "propagating" /\ tgErrors = {} THEN "cancelled"
                    ELSE IF result = "ok" THEN "done"
                    ELSE "logged"]
    /\ UNCHANGED <<bridgeVars, openerVars, appVars, released, accPc, accCancel, session,
                   arrived, listened, acceptErrors>>

\* A step of the accept loop or of another session's task. These steps and
\* the steps of the task of session 1 touch disjoint state, so the order between
\* them makes no difference; they are taken once the task of session 1 is over.
AfterSessionTask(A) == ~SessionTaskLive /\ A

ServerSessionNext ==
    \/ AfterSessionTask(listen_for_session_returns)
    \/ AfterSessionTask(handle_session_starts)
    \/ SessionPump(slim_reader_receive)
    \/ SessionPump(slim_reader_continue)
    \/ SessionPump(slim_reader_break)
    \/ SessionPump(slim_reader_broken)
    \/ SessionPump(slim_reader_cancelled)
    \/ SessionPump(slim_writer_take)
    \/ SessionPump(slim_writer_published)
    \/ SessionPump(slim_writer_acked)
    \/ SessionPump(slim_writer_send_failed)
    \/ SessionPump(slim_writer_end_of_stream)
    \/ SessionPump(slim_writer_cancelled)
    \/ SessionPump(force_termination)
    \/ SessionBody(ProducerSend)
    \/ SessionBody(ProducerClose)
    \/ SessionBody(ConsumerReceive)
    \/ SessionBody(ConsumerClose)
    \/ SessionBody(BodyReturns)
    \/ SessionBody(BodyCancelled)
    \/ SessionBody(ScopeExit)
    \/ CancelSessionTask
    \/ session_task_cancel_delivered
    \/ session_task_ends

ServerSessionSpec == ServerSessionInit /\ [][ServerSessionNext]_vars

\* The event loop runs every task that is ready; mcp_app.run lets a
\* CancelledError through. Nothing obliges the peer, the handler or whoever
\* holds the task to act.
ServerSessionFairSpec ==
    /\ ServerSessionSpec
    /\ WF_vars(AfterSessionTask(handle_session_starts))
    /\ WF_vars(SessionPump(slim_reader_continue))
    /\ WF_vars(SessionPump(slim_reader_break))
    /\ WF_vars(SessionPump(slim_reader_broken))
    /\ WF_vars(SessionPump(slim_reader_cancelled))
    /\ WF_vars(SessionPump(slim_writer_take))
    /\ WF_vars(SessionPump(slim_writer_end_of_stream))
    /\ WF_vars(SessionPump(slim_writer_cancelled))
    /\ WF_vars(SessionPump(force_termination))
    /\ WF_vars(SessionBody(BodyCancelled))
    /\ WF_vars(SessionBody(ScopeExit))
    /\ WF_vars(session_task_cancel_delivered)
    /\ WF_vars(session_task_ends)

-----------------------------------------------------------------------------
(* C25, C28: one session task of the server.                               *)

\* handle_session of session 1 has ended, in whichever way
SessionTaskEnded == tasks[1].state \in {"done", "logged", "cancelled"}

\* the steps by which a cancellation of the task of session 1 takes effect
SessionTaskCancelSteps ==
    \/ CancelSessionTask
    \/ session_task_cancel_delivered
    \/ session_task_ends

\* C25: cancelling the task of one accepted session stops that session's two
\* pumps and ends that task; the cancellation changes nothing of the accept
\* loop, which stays listening, nor of any other session's task, which stays
\* running.
C25_SessionTaskCancellable ==
    /\ (tasks[1].state = "cancelling") ~> (PumpsDone /\ SessionTaskEnded)
    /\ [][SessionTaskCancelSteps =>
            /\ UNCHANGED <<accPc, accCancel, session, listened, arrived, acceptErrors>>
            /\ Len(tasks') = Len(tasks)
            /\ \A i \in 2..Len(tasks) : tasks'[i] = tasks[i]]_vars
    /\ [](tasks[1].state \in {"cancelling", "propagating", "absorbed", "cancelled"} =>
            /\ accPc = "listening"
            /\ ~accCancel
            /\ tasks[2].state = "running")

\* the task of session 1 ended by cancellation with its pumps stopped, the
\* task of session 2 runs, and the loop has since accepted session 3 and
\* started its task
C25_Witness ==
    /\ tasks[1].state = "cancelled"
    /\ PumpsDone
    /\ readerExit = "cancelled"
    /\ writerExit = "cancelled"
    /\ tasks[2].state = "running"
    /\ Len(tasks) = 3
    /\ tasks[3].state = "running"
    /\ accPc = "listening"

\* the handler run (mcp_app.run) is in progress
HandlerRunning == SessionTaskLive /\ parentPc = "body"

-----------------------------------------------------------------------------
(* C31: a bridge scope whose body raises.                                  *)

\* The body raises an error of its own. It is thrown into the generator at the
\* yield, so force_termination is never created; TaskGroup.__aexit__ aborts the
\* group unless it is aborting already, waits for the children and adds the
\* error to the ones it raises as a group ("body" is entered in tgErrors here,
\* the group is raised by ScopeExit). A cancellation of the body still pending
\* is caught by __aexit__ and dropped.
BodyRaises ==
    /\ parentPc = "body"
    /\ parentPc' = "unwind_wait"
    /\ parentCancel' = FALSE
    /\ tgErrors' = tgErrors \cup {"body"}
    /\ aborting' = TRUE
    /\ IF aborting
       THEN UNCHANGED <<readerCancel, writerCancel>>
       ELSE /\ readerCancel' = (readerPc # "done")
            /\ writerCancel' = (writerPc # "done")
    /\ UNCHANGED <<acceptorVars, openerVars, appVars, role, readerVars, inbound, inRecvClosed,
                   accepted, writerVars, outSendClosed, forcePc, result>>

BodyErrorNext ==
    \/ Next
    \/ BodyRaises

BodyErrorSpec == Init /\ [][BodyErrorNext]_vars

BodyRaised == "body" \in tgErrors

\* C31: a scope whose body raised finishes only with both pumps ended, never
\* creates force_termination, and raises to its caller a group of errors that
\* holds the body's error, whatever else the pumps raised (TerminateTaskGroup
\* included).
C31_BodyErrorReachesCaller ==
    /\ (BodyRaised /\ parentPc = "done") =>
            /\ PumpsDone
            /\ result = "raised"
            /\ "body" \in Unhandled(tgErrors)
    /\ BodyRaised => forcePc = "none" /\ parentPc \in {"unwind_wait", "done"}

\* slim_reader had raised TerminateTaskGroup for a closure when the body
\* raised; the scope has finished
C31_Witness ==
    /\ BodyRaised
    /\ "TTG" \in tgErrors
    /\ readerExit = "ttg"
    /\ writerExit = "cancelled"
    /\ parentPc = "done"
    /\ result = "raised"

-----------------------------------------------------------------------------
(* C32: backpressure on the inbound direction.                             *)

\* items received from the session and not (or not yet) taken by the consumer
InboundHeld == Len(delivered) - Len(inbound)

\* C32: at most one item received from the session is held by the bridge, and
\* slim_reader calls receive again only when the consumer has taken the message
\* or error value made of every earlier one.
C32_InboundRendezvous ==
    /\ [](InboundHeld \in {0, 1})
    /\ [][delivered' # delivered => InboundHeld = 0]_vars

\* the consumer took the first message, slim_reader received a second one and
\* is parked in send with it
C32_Witness ==
    /\ Len(delivered) = 2
    /\ Len(inbound) = 1
    /\ readerPc = "send_msg"
    /\ delivered[2].kind = "payload"
    /\ parentPc = "body"

-----------------------------------------------------------------------------
(* C33: the two directions of a bridge.                                    *)

\* slim_writer has nothing to send, or waits for publish_async or for the
\* completion of a send
OutboundStalled == writerPc \in {"recv", "publish", "wait"}

\* slim_reader waits for the session, or for the consumer to take an item
InboundStalled == readerPc \in {"recv", "send_msg", "send_exc"}

\* the scope is in its body and no task of the group has raised
BridgeRunning == parentPc = "body" /\ ~aborting

\* whatever slim_reader and the consumer of read_stream are at, their next step
\* can be taken
InboundCanProceed ==
    /\ (readerPc = "recv" /\ Len(delivered) < MaxRecv) => ENABLED slim_reader_receive
    /\ (readerPc \in {"send_msg", "send_exc"} /\ ~inRecvClosed) => ENABLED ConsumerReceive
    /\ readerPc = "msg_sent" => ENABLED slim_reader_continue
    /\ readerPc = "exc_sent" => ENABLED slim_reader_break

\* whatever slim_writer and the producer of write_stream are at, their next
\* step can be taken
OutboundCanProceed ==
    /\ (writerPc = "recv" /\ Len(accepted) < MaxOut /\ ~outSendClosed) => ENABLED ProducerSend
    /\ writerPc = "handed" => ENABLED slim_writer_take
    /\ writerPc = "publish" => ENABLED slim_writer_published
    /\ writerPc = "wait" => ENABLED slim_writer_acked

\* C33: while the bridge runs, a stalled slim_writer (idle, or waiting for a
\* send to complete) leaves every step of the inbound direction possible, and
\* a stalled slim_reader (waiting for the session, or for the consumer) leaves
\* every step of the outbound direction possible.
C33_DirectionsIndependent ==
    /\ (BridgeRunning /\ OutboundStalled) => InboundCanProceed
    /\ (BridgeRunning /\ InboundStalled) => OutboundCanProceed

\* every receivable message was delivered to the consumer while slim_writer
\* has been waiting for the completion of its first send
C33_Witness ==
    /\ BridgeRunning
    /\ writerPc = "wait"
    /\ Len(taken) = 1
    /\ acked = 0
    /\ Len(inbound) = MaxRecv
    /\ \A i \in 1..MaxRecv : inbound[i].kind = "msg"

-----------------------------------------------------------------------------
(* C34: cancelling run_mcp_server.                                         *)

\* the step of a handle_session task: its start, or its end by its own handler
\* or bridge
TaskOwnStep(i) ==
    \/ tasks[i].state = "created" /\ tasks'[i].state = "running"
    \/ /\ tasks[i].state = "running"
       /\ tasks'[i].state \in {"done", "logged", "failed"}
       /\ tasks'[i].bound = tasks[i].bound

\* C34: requesting the cancellation of run_mcp_server and the loop ending by
\* it leave every handle_session task as it was; a task changes only by a
\* step of its own, also after the loop has ended, and a loop that has ended
\* has waited for none of them: tasks that were spawned can still start and
\* tasks that run can still end.
C34_ServerCancelLeavesTasks ==
    /\ [][(accCancel' # accCancel \/ accPc' # accPc) => tasks' = tasks]_vars
    /\ [][\A i \in 1..Len(tasks) : tasks'[i] # tasks[i] => TaskOwnStep(i)]_vars
    /\ [](accPc = "cancelled" =>
            /\ (\E i \in 1..Len(tasks) : tasks[i].state = "created")
                  => ENABLED handle_session_starts
            /\ (\E i \in 1..Len(tasks) : tasks[i].state = "running")
                  => ENABLED handle_session_completes)

\* the loop has ended by cancellation while two session tasks run
C34_Witness ==
    /\ accPc = "cancelled"
    /\ Len(tasks) = 2
    /\ tasks[1].state = "running"
    /\ tasks[2].state = "running"
    /\ ENABLED handle_session_completes

-----------------------------------------------------------------------------
(* create_local_app: one call. setup_service, create_app_with_secret and    *)
(* subscribe_async are taken to succeed; connect_async returns a connection *)
(* id or raises an Exception with some text.                                *)

AppFrame == UNCHANGED <<bridgeVars, acceptorVars, openerVars>>

ConnIds == 0..MaxConnId

ErrWords == {"client", "already", "connected", "refused"}

\* the texts str(e) can have
ConnectErrTexts == UNION {[1..n -> ErrWords] : n \in 0..MaxErrLen}

AlreadyConnected == <<"client", "already", "connected">>

\* a handler that ignores every connect error
IgnoredConnectError_Any(text) == Len(text) >= 0

\* `"client already connected" not in str(e)` is false: the error is ignored
IgnoredConnectError(text) == Contains(text, AlreadyConnected)

\* `connection_id is not None`
Connected(id) == id # NoConnection

\* create_local_app is called, with or without a client config: setup_service,
\* then connect_async when a config is given
AppCalled ==
    /\ slim_client_config \in BOOLEAN
    /\ appPc = IF slim_client_config THEN "connect" ELSE "create"
    /\ connectOutcome = [kind |-> "none"]
    /\ connection_id = NoConnection
    /\ local_app = FALSE
    /\ subscribed = <<>>
    /\ appResult = <<>>

\* connect_async returns a connection id
connect_returns ==
    /\ appPc = "connect"
    /\ \E id \in ConnIds :
          /\ connection_id' = id
          /\ connectOutcome' = [kind |-> "id", id |-> id]
    /\ appPc' = "create"
    /\ UNCHANGED <<slim_client_config, local_app, subscribed, appResult>>
    /\ AppFrame

\* connect_async raises: `except Exception as e`, re-raised unless ignored
connect_raises ==
    /\ appPc = "connect"
    /\ \E t \in ConnectErrTexts :
          /\ connectOutcome' = [kind |-> "exc", text |-> t]
          /\ appPc' = IF IgnoredConnectError(t) THEN "create" ELSE "raised"
    /\ UNCHANGED <<slim_client_config, connection_id, local_app, subscribed, appResult>>
    /\ AppFrame

\* create_app_with_secret, then the test of connection_id: subscribe, or return
create_app ==
    /\ appPc = "create"
    /\ local_app' = TRUE
    /\ IF Connected(connection_id)
       THEN /\ appPc' = "subscribe"
            /\ UNCHANGED appResult
       ELSE /\ appPc' = "returned"
            /\ appResult' = <<"app", connection_id>>
    /\ UNCHANGED <<slim_client_config, connectOutcome, connection_id, subscribed>>
    /\ AppFrame

\* subscribe_async returns: return local_app, connection_id
subscribe_returns ==
    /\ appPc = "subscribe"
    /\ subscribed' = Append(subscribed, connection_id)
    /\ appPc' = "returned"
    /\ appResult' = <<"app", connection_id>>
    /\ UNCHANGED <<slim_client_config, connectOutcome, connection_id, local_app>>
    /\ AppFrame

AppNext ==
    \/ connect_returns
    \/ connect_raises
    \/ create_app
    \/ subscribe_returns

AppInit == BridgeStart /\ role = "client" /\ AcceptorStart /\ OpenerStart /\ AppCalled

AppSpec == AppInit /\ [][AppNext]_vars

ConnectFailed == connectOutcome.kind = "exc"

\* C35: in a call with a client config, a connect error whose text contains
\* "client already connected" does not end the call: no subscription is made
\* and the app is created and returned with the connection id None. Any other
\* connect error ends the call with that error and no app. A call that has
\* returned made one subscription, with the id connect returned, when connect
\* returned an id (0 included), and none otherwise.
C35_AlreadyConnectedIgnored ==
    /\ (ConnectFailed /\ Contains(connectOutcome.text, AlreadyConnected)) =>
            /\ appPc \in {"create", "returned"}
            /\ connection_id = NoConnection
            /\ subscribed = <<>>
            /\ appPc = "create" => ENABLED create_app
            /\ appPc = "returned" => local_app /\ appResult = <<"app", NoConnection>>
    /\ (ConnectFailed /\ ~Contains(connectOutcome.text, AlreadyConnected)) =>
            /\ appPc = "raised"
            /\ ~local_app
            /\ subscribed = <<>>
            /\ appResult = <<>>
    /\ appPc = "returned" =>
            subscribed = IF connectOutcome.kind = "id"
                         THEN <<connectOutcome.id>>
                         ELSE <<>>
    /\ appPc = "subscribe" => connectOutcome.kind = "id"

\* connect raised "refused client already connected" and the call returned
C35_Witness ==
    /\ slim_client_config
    /\ ConnectFailed
    /\ connectOutcome.text = <<"refused", "client", "already", "connected">>
    /\ appPc = "returned"
    /\ local_app
    /\ appResult = <<"app", NoConnection>>

====
